---- MODULE Spec2Model ----
(***************************************************************************)
(* The asynchronous job-processing core of podcast_tts_mcp_server.py:      *)
(* play_podcast (submit), process_podcast_request (one background task per *)
(* job), check_podcast_status (poll) and cleanup_old_requests (Reaper),    *)
(* over the shared PODCAST_REQUESTS dictionary, the REQUEST_LOCK and the   *)
(* scratch directory.                                                      *)
(*                                                                         *)
(* Scheduling is asyncio's: one task runs at a time and is interrupted     *)
(* only at an await.  An action is therefore the code between two awaits   *)
(* at which the task can be suspended.  The handlers are modelled with a   *)
(* Context (ctx), as FastMCP calls them, so every "await ctx..." is such a *)
(* point.  An uncontended "async with REQUEST_LOCK" does not suspend; a    *)
(* contended one waits until the lock is free.                             *)
(*                                                                         *)
(* Time is counted in ticks, TicksPerSecond to the second, so that         *)
(* int(time.time()) truncates.  The string "req_<n>" is modelled by the    *)
(* integer n (the formatting is injective).                                *)
(***************************************************************************)
EXTENDS Integers, Sequences, FiniteSets, TLC

\* ------------------------------------------------------------ bounds
\* number of play_podcast calls
MaxJobs == 2
\* longest submitted conversation
MaxSegs == 2
\* single clock ticks after the start and after a jump of one retention window
MaxSmallTicks == 1
\* clock resolution
TicksPerSecond == 2
\* longest rate or volume string given to the validator alone
MaxPercentLen == 5
\* longest speaker string given to the validator alone
MaxSpeakerLen == 6
\* longest text and greatest chunk size given to chunk_text alone
MaxTextLen == 5
MaxChunkLen == 4
\* number of text_to_speech calls, and most chunks of one text
MaxCalls == 2
MaxChunks == 2

\* ------------------------------------------------------------ program constants
REQUEST_EXPIRY_SECONDS == 3600
CLEANUP_INTERVAL_SECONDS == 300

ExpiryTicks == REQUEST_EXPIRY_SECONDS * TicksPerSecond
IntervalTicks == CLEANUP_INTERVAL_SECONDS * TicksPerSecond
MaxClock == ExpiryTicks + MaxSmallTicks

Jobs == 1..MaxJobs
\* Python's None, for a request id, a result and a response
NoId == -1
NoResult == [status |-> "None"]
NoResponse == [status |-> "None"]
NoHolder == "free"
\* no pure function is being called
NoCall == [fn |-> "None"]
\* the text_to_speech calls, and one that has not been made
Calls == 1..MaxCalls
NoTts == [pc |-> "idle", start_time |-> 0, request_id |-> NoId,
          request |-> [text |-> [length |-> 0, chunks |-> 0, stripped |-> 0]],
          chunks |-> <<>>, temp_files |-> <<>>, response |-> NoResponse]

PODCAST_VOICES ==
  [s \in {"male", "female"} |-> IF s = "male" THEN "en-US-GuyNeural" ELSE "en-US-AriaNeural"]

\* the segment a caller submits at index i (0-based): the two voices alternate
SegmentAt(i) ==
  IF i % 2 = 0 THEN [speaker |-> "male", text |-> "Hello!"]
               ELSE [speaker |-> "female", text |-> "Hi there!"]

\* the conversations a caller may submit (validated form)
Conversations == { [i \in 1..n |-> SegmentAt(i - 1)] : n \in 1..MaxSegs }

\* the greatest total length of a conversation (line 78)
MaxTotalLength == 64000
\* the longest text of text_to_speech, and the longest it sends in one call
MaxTextLength == 64000
ChunkThreshold == 5000
\* a text of LongLength characters, none of them whitespace: with "Hello!" it
\* makes MaxTotalLength characters
LongLength == MaxTotalLength - Len("Hello!")
LongText == "x * LongLength"
\* the texts of this model
Texts == {"Hello!", "Hi there!", "!", "", "  ", LongText}
\* text.strip() == "" for the texts of this model
IsBlank(text) == text \in {"", "  "}
\* len(text.split()) for the texts of this model
WordCount(text) == IF IsBlank(text) THEN 0 ELSE IF text = "Hi there!" THEN 2 ELSE 1
\* len(text)
TextLen(text) == IF text = LongText THEN LongLength ELSE Len(text)

\* f"req_{int(time.time())}"
RequestId(t) == t \div TicksPerSecond

\* the audio the backend returns for one call
Audio(text, voice, rate, volume) == [text |-> text, voice |-> voice, rate |-> rate, volume |-> volume]

SegmentPath(rid, i) == <<"podcast_segment", rid, i>>
OutputPath(rid) == <<"podcast_conversation", rid>>

VARIABLES
  now,               \* time.time(), in ticks
  PODCAST_REQUESTS,  \* request id -> job record
  REQUEST_LOCK,      \* the task holding the lock across an await, or NoHolder
  files,             \* the scratch directory: path -> content
  sub,               \* per play_podcast call: its position and locals
  proc,              \* per process_podcast_request task: its position and locals
  chk,               \* the check_podcast_status call: its position and locals
  reaper,            \* cleanup_old_requests: its position and locals
  pure,              \* a call of a pure function: its argument and its result
  tts,               \* per text_to_speech call: its position and locals
  lifespan           \* server_lifespan: "running" until its finally clause has run

vars == <<now, PODCAST_REQUESTS, REQUEST_LOCK, files, sub, proc, chk, reaper, pure, tts, lifespan>>

\* ------------------------------------------------------------ dictionary helpers
Put(f, k, v) == [x \in (DOMAIN f) \cup {k} |-> IF x = k THEN v ELSE f[x]]
Del(f, ks) == [x \in (DOMAIN f) \ ks |-> f[x]]
EmptyMap == [x \in {} |-> NoId]

RECURSIVE SumWords(_)
SumWords(details) ==
  IF details = <<>> THEN 0 ELSE Head(details).word_count + SumWords(Tail(details))

\* the locals of a task that has not started or has ended
NoLocals(pc) == [pc |-> pc, i |-> 0, temp_files |-> <<>>, segment_details |-> <<>>,
                 result |-> NoResult, exc |-> "None"]

\* ------------------------------------------------------------ strings
\* A string whose characters matter is a sequence of one-character strings.
Digit == {"0", "1", "2", "3", "4", "5", "6", "7", "8", "9"}
DigitValue(c) ==
  CASE c = "0" -> 0 [] c = "1" -> 1 [] c = "2" -> 2 [] c = "3" -> 3 [] c = "4" -> 4
    [] c = "5" -> 5 [] c = "6" -> 6 [] c = "7" -> 7 [] c = "8" -> 8 [] c = "9" -> 9

\* str.startswith and str.endswith for a one-character argument
StartsWith(v, c) == Len(v) > 0 /\ v[1] = c
EndsWith(v, c) == Len(v) > 0 /\ v[Len(v)] = c

\* str.strip() for the whitespace character " "
RECURSIVE LStrip(_)
LStrip(s) == IF s # <<>> /\ Head(s) = " " THEN LStrip(Tail(s)) ELSE s
RECURSIVE RStrip(_)
RStrip(s) == IF s # <<>> /\ s[Len(s)] = " " THEN RStrip(SubSeq(s, 1, Len(s) - 1)) ELSE s
Strip(s) == RStrip(LStrip(s))

\* the characters of the string, joined
RECURSIVE Str(_)
Str(s) == IF s = <<>> THEN "" ELSE Head(s) \o Str(Tail(s))

\* the digits of a Python integer literal: digits, with single underscores
\* allowed between digits
DigitsOk(s) ==
  /\ s # <<>>
  /\ s[1] \in Digit /\ s[Len(s)] \in Digit
  /\ \A n \in 1..Len(s) : s[n] \in Digit \cup {"_"}
  /\ \A n \in 1..(Len(s) - 1) : ~(s[n] = "_" /\ s[n + 1] = "_")

RECURSIVE DigitsValue(_, _)
DigitsValue(s, acc) ==
  IF s = <<>> THEN acc
  ELSE IF Head(s) = "_" THEN DigitsValue(Tail(s), acc)
  ELSE DigitsValue(Tail(s), 10 * acc + DigitValue(Head(s)))

\* Python's int(s) for a string: surrounding whitespace is stripped, one sign
\* is allowed; ok is FALSE where int raises ValueError
ParseInt(s) ==
  LET t == Strip(s)
      signed == t # <<>> /\ Head(t) \in {"+", "-"}
      body == IF signed THEN Tail(t) ELSE t
  IN  IF DigitsOk(body)
      THEN [ok |-> TRUE,
            value |-> IF signed /\ Head(t) = "-" THEN 0 - DigitsValue(body, 0)
                      ELSE DigitsValue(body, 0)]
      ELSE [ok |-> FALSE, value |-> 0]

\* ------------------------------------------------------------ validation
\* the outcome of a validator: the validated value, or the exception raised
Accepted(v) == [ok |-> TRUE, value |-> v]
Rejected(e) == [ok |-> FALSE, error |-> e]

\* PodcastConversation.validate_percentage, lines 83-95 (and
\* TTSInput.validate_percentage, edge_tts_mcp_server.py lines 136-147)
validate_percentage(v) ==
  IF ~(StartsWith(v, "+") \/ StartsWith(v, "-")) \/ ~EndsWith(v, "%")
  THEN Rejected("Must be in format +X% or -X%")
  ELSE LET num == ParseInt(SubSeq(v, 2, Len(v) - 1))
       IN  IF ~num.ok \/ num.value < 0 \/ num.value > 100
           THEN Rejected("Invalid percentage format")
           ELSE Accepted(v)

\* str.lower(), character by character
UpperCase == <<"A", "B", "C", "D", "E", "F", "G", "H", "I", "J", "K", "L", "M",
               "N", "O", "P", "Q", "R", "S", "T", "U", "V", "W", "X", "Y", "Z">>
LowerCase == <<"a", "b", "c", "d", "e", "f", "g", "h", "i", "j", "k", "l", "m",
               "n", "o", "p", "q", "r", "s", "t", "u", "v", "w", "x", "y", "z">>
LowerChar(c) ==
  IF \E n \in 1..Len(UpperCase) : UpperCase[n] = c
  THEN LowerCase[CHOOSE n \in 1..Len(UpperCase) : UpperCase[n] = c]
  ELSE c
Lower(s) == [n \in 1..Len(s) |-> LowerChar(s[n])]

\* as validate_speaker, had it returned v where the code returns v.lower()
validate_speaker_as_given(v) ==
  IF Str(Lower(v)) \notin {"male", "female"}
  THEN Rejected("Speaker must be either 'male' or 'female'")
  ELSE Accepted(Str(v))

\* ConversationSegment.validate_speaker, lines 47-53; the speaker is given as
\* its characters and returned as a string
validate_speaker(v) ==
  IF Str(Lower(v)) \notin {"male", "female"}
  THEN Rejected("Speaker must be either 'male' or 'female'")
  ELSE Accepted(Str(Lower(v)))

\* ConversationSegment.validate_text_not_empty, lines 55-61
validate_text_not_empty(v) ==
  IF IsBlank(v) THEN Rejected("Text cannot be empty") ELSE Accepted(v)

\* ConversationSegment(speaker=..., text=...): every field is validated and
\* the errors of all fields are raised together
ConversationSegment(speaker, text) ==
  LET s == validate_speaker(speaker)
      t == validate_text_not_empty(text)
  IN  IF s.ok /\ t.ok THEN Accepted([speaker |-> s.value, text |-> t.value])
      ELSE Rejected((IF s.ok THEN <<>> ELSE <<s.error>>) \o (IF t.ok THEN <<>> ELSE <<t.error>>))

\* PodcastConversation.validate_conversation_not_empty, lines 69-81
RECURSIVE TotalLength(_)
TotalLength(v) == IF v = <<>> THEN 0 ELSE TextLen(Head(v).text) + TotalLength(Tail(v))
\* as validate_conversation_not_empty, with >= for >
validate_conversation_below_maximum(v) ==
  IF v = <<>> THEN Rejected("Conversation cannot be empty")
  ELSE IF TotalLength(v) >= MaxTotalLength
       THEN Rejected("Total conversation length exceeds maximum")
       ELSE Accepted(v)

validate_conversation_not_empty(v) ==
  IF v = <<>> THEN Rejected("Conversation cannot be empty")
  ELSE IF TotalLength(v) > MaxTotalLength
       THEN Rejected("Total conversation length exceeds maximum")
       ELSE Accepted(v)

\* PodcastConversation(conversation=..., rate=..., volume=...), lines 486-490:
\* every field is validated and the errors of all fields are raised together
PodcastConversation(conversation, rate, volume) ==
  LET c == validate_conversation_not_empty(conversation)
      r == validate_percentage(rate)
      v == validate_percentage(volume)
  IN  IF c.ok /\ r.ok /\ v.ok
      THEN Accepted([conversation |-> c.value, rate |-> Str(r.value), volume |-> Str(v.value)])
      ELSE Rejected((IF c.ok THEN <<>> ELSE <<c.error>>) \o (IF r.ok THEN <<>> ELSE <<r.error>>)
                      \o (IF v.ok THEN <<>> ELSE <<v.error>>))

\* k.lower() for the keys of a segment dictionary
KeyLower(k) ==
  IF k \in {"speaker", "Speaker"} THEN "speaker" ELSE IF k \in {"text", "Text"} THEN "text" ELSE k
\* next((k for k in segment.keys() if k.lower() == name), name), lines 477-478
KeyFor(segment, name) ==
  IF \E k \in DOMAIN segment : KeyLower(k) = name
  THEN CHOOSE k \in DOMAIN segment : KeyLower(k) = name
  ELSE name

\* lines 474-484: the segments are converted in order; the first one that is
\* invalid raises; a dictionary without a speaker or a text key is skipped
RECURSIVE ValidatedSegments(_)
ValidatedSegments(conversation) ==
  IF conversation = <<>> THEN Accepted(<<>>)
  ELSE LET segment == Head(conversation)
           speaker_key == KeyFor(segment, "speaker")
           text_key == KeyFor(segment, "text")
           rest == ValidatedSegments(Tail(conversation))
       IN  IF speaker_key \in DOMAIN segment /\ text_key \in DOMAIN segment
           THEN LET seg == ConversationSegment(segment[speaker_key], segment[text_key])
                IN  IF ~seg.ok THEN seg
                    ELSE IF rest.ok THEN Accepted(<<seg.value>> \o rest.value) ELSE rest
           ELSE rest

\* lines 472-498 of play_podcast: the validated request, or the exception
ValidateRequest(request) ==
  LET validated_segments == ValidatedSegments(request.conversation)
  IN  IF ~validated_segments.ok THEN validated_segments
      ELSE PodcastConversation(validated_segments.value, request.rate, request.volume)

\* the server's state before any call
ServerInit ==
  /\ now = 0
  /\ PODCAST_REQUESTS = EmptyMap
  /\ REQUEST_LOCK = NoHolder
  /\ files = EmptyMap
  /\ sub = [j \in Jobs |-> [pc |-> "idle", request_id |-> NoId, conversation |-> <<>>,
                            rate |-> "+0%", volume |-> "+0%", response |-> NoResponse,
                            just_returned |-> FALSE]]
  /\ proc = [j \in Jobs |-> NoLocals("none")]
  /\ chk = [pc |-> "idle", request_id |-> NoId, response |-> NoResponse]
  /\ reaper = [pc |-> "run", current_time |-> 0, wake_at |-> 0]
  /\ tts = [c \in Calls |-> NoTts]
  /\ lifespan = "running"

Init == ServerInit /\ pure = NoCall

\* A response of check_podcast_status is handed to its caller before any other
\* task runs: the handler has no effect after it has built the response.
Running == chk.pc # "returned"

\* ------------------------------------------------------------ the clock
\* the instants the model visits: a few ticks after the start, and the same
\* after one retention window has passed
Instants == { t \in 0..MaxClock : t % ExpiryTicks <= MaxSmallTicks }

\* time passes; the Reaper's asyncio.sleep (lines 187, 191) ends when its
\* deadline is reached.  just_returned marks a play_podcast call that returned
\* at the present instant.
Tick(d) ==
  /\ Running
  /\ now + d \in Instants
  /\ now' = now + d
  /\ reaper' = IF reaper.pc \in {"sleep", "backoff"} /\ now + d >= reaper.wake_at
                THEN [reaper EXCEPT !.pc = "run"] ELSE reaper
  /\ sub' = [j \in Jobs |-> [sub[j] EXCEPT !.just_returned = FALSE]]
  /\ UNCHANGED <<pure, tts, lifespan, PODCAST_REQUESTS, REQUEST_LOCK, files, proc, chk>>

\* ------------------------------------------------------------ play_podcast
\* a validated segment, as a caller writes it: the speaker in the caller's
\* letter case, as characters
AsGiven(segment) ==
  [speaker |-> IF segment.speaker = "male" THEN <<"m", "a", "l", "e">>
                                            ELSE <<"F", "e", "m", "a", "l", "e">>,
   text |-> segment.text]
PlusZero == <<"+", "0", "%">>
\* the requests that fail validation: no segment, an unknown speaker, a
\* rate out of range
InvalidRequests ==
  { [conversation |-> <<>>, rate |-> PlusZero, volume |-> PlusZero],
    [conversation |-> <<[speaker |-> <<"b", "o", "t">>, text |-> "Hello!"]>>,
     rate |-> PlusZero, volume |-> PlusZero],
    [conversation |-> <<AsGiven(SegmentAt(0))>>,
     rate |-> <<"+", "1", "0", "1", "%">>, volume |-> PlusZero] }
\* the arguments of a play_podcast call
Requests ==
  { [conversation |-> [n \in 1..Len(c) |-> AsGiven(c[n])], rate |-> PlusZero, volume |-> PlusZero] :
      c \in Conversations } \cup InvalidRequests

\* as SubmitCall, had the record been stored on entry, before validation
SubmitCallStoresFirst(j, request) ==
  /\ Running
  /\ sub[j].pc = "idle"
  /\ IF j = 1 THEN TRUE ELSE sub[j - 1].pc # "idle"
  /\ LET r == ValidateRequest(request)
     IN  /\ sub' = [sub EXCEPT ![j] =
                 IF r.ok
                 THEN [@ EXCEPT !.pc = "validated", !.request_id = RequestId(now),
                                !.conversation = r.value.conversation,
                                !.rate = r.value.rate, !.volume = r.value.volume]
                 ELSE [@ EXCEPT !.pc = "rejecting", !.request_id = RequestId(now),
                                !.response = [status |-> "error", error |-> r.error,
                                              error_type |-> "ValidationError"]]]
         /\ PODCAST_REQUESTS' =
              Put(PODCAST_REQUESTS, RequestId(now),
                  [status |-> "submitted", submitted_at |-> now, progress |-> 0,
                   total_segments |-> Len(request.conversation), errors |-> <<>>,
                   settings |-> [rate |-> Str(request.rate), volume |-> Str(request.volume)],
                   result |-> NoResult])
  /\ UNCHANGED <<pure, tts, lifespan, now, REQUEST_LOCK, files, proc, chk, reaper>>

\* lines 461-498: the id is taken on entry; the awaits on ctx follow, then the
\* validation, which either passes (the call is at line 493) or raises (the
\* call is in the except clause, at line 539)
SubmitCall(j, request) ==
  /\ Running
  /\ sub[j].pc = "idle"
  /\ IF j = 1 THEN TRUE ELSE sub[j - 1].pc # "idle"
  /\ LET r == ValidateRequest(request)
     IN  sub' = [sub EXCEPT ![j] =
                 IF r.ok
                 THEN [@ EXCEPT !.pc = "validated", !.request_id = RequestId(now),
                                !.conversation = r.value.conversation,
                                !.rate = r.value.rate, !.volume = r.value.volume]
                 ELSE [@ EXCEPT !.pc = "rejecting", !.request_id = RequestId(now),
                                !.response = [status |-> "error", error |-> r.error,
                                              error_type |-> "ValidationError"]]]
  /\ UNCHANGED <<pure, tts, lifespan, now, PODCAST_REQUESTS, REQUEST_LOCK, files, proc, chk, reaper>>

NewRecord(j) ==
  [status |-> "submitted", submitted_at |-> now, progress |-> 0,
   total_segments |-> Len(sub[j].conversation), errors |-> <<>>,
   settings |-> [rate |-> sub[j].rate, volume |-> sub[j].volume],
   result |-> NoResult]

\* as SubmitStore, had it awaited the run instead of creating a task for it:
\* the first block of the run (lines 212-215) is over when it returns
SubmitStoreAwaitsRun(j) ==
  /\ Running
  /\ sub[j].pc = "validated"
  /\ REQUEST_LOCK = NoHolder
  /\ PODCAST_REQUESTS' = Put(PODCAST_REQUESTS, sub[j].request_id,
                             [NewRecord(j) EXCEPT !.status = "processing"])
  /\ proc' = [proc EXCEPT ![j].pc = "loop"]
  /\ sub' = [sub EXCEPT ![j] = [@ EXCEPT !.pc = "returned", !.just_returned = TRUE,
                                         !.response = [status |-> "submitted",
                                                       request_id |-> sub[j].request_id,
                                                       total_segments |-> Len(sub[j].conversation)]]]
  /\ UNCHANGED <<pure, tts, lifespan, now, REQUEST_LOCK, files, chk, reaper>>

\* lines 500-533: store under the lock, create the task, return
SubmitStore(j) ==
  /\ Running
  /\ sub[j].pc = "validated"
  /\ REQUEST_LOCK = NoHolder
  /\ PODCAST_REQUESTS' = Put(PODCAST_REQUESTS, sub[j].request_id, NewRecord(j))
  /\ proc' = [proc EXCEPT ![j].pc = "start"]
  /\ sub' = [sub EXCEPT ![j] = [@ EXCEPT !.pc = "returned", !.just_returned = TRUE,
                                         !.response = [status |-> "submitted",
                                                       request_id |-> sub[j].request_id,
                                                       total_segments |-> Len(sub[j].conversation)]]]
  /\ UNCHANGED <<pure, tts, lifespan, now, REQUEST_LOCK, files, chk, reaper>>

\* lines 535-546: the error response is returned; the locals are gone
SubmitReject(j) ==
  /\ Running
  /\ sub[j].pc = "rejecting"
  /\ sub' = [sub EXCEPT ![j] = [@ EXCEPT !.pc = "rejected", !.request_id = NoId]]
  /\ UNCHANGED <<pure, tts, lifespan, now, PODCAST_REQUESTS, REQUEST_LOCK, files, proc, chk, reaper>>

\* ------------------------------------------------------------ process_podcast_request
Conv(j) == sub[j].conversation
Rid(j) == sub[j].request_id
Known(rid) == rid \in DOMAIN PODCAST_REQUESTS

\* PODCAST_REQUESTS[request_id][...] = ... on a missing id, or any other
\* exception of the run: control goes to the except clause of line 365
Raise(j, e) == [proc EXCEPT ![j] = [@ EXCEPT !.pc = "except", !.exc = e]]

\* lines 209-226
ProcStart(j) ==
  /\ Running
  /\ proc[j].pc = "start"
  /\ REQUEST_LOCK = NoHolder
  /\ IF Known(Rid(j))
     THEN /\ PODCAST_REQUESTS' = [PODCAST_REQUESTS EXCEPT ![Rid(j)] =
                 [@ EXCEPT !.status = "processing", !.progress = 0,
                           !.total_segments = Len(Conv(j))]]
          /\ proc' = [proc EXCEPT ![j].pc = IF Len(Conv(j)) > 0 THEN "loop" ELSE "combine"]
     ELSE /\ proc' = Raise(j, "KeyError")
          /\ UNCHANGED PODCAST_REQUESTS
  /\ UNCHANGED <<pure, tts, lifespan, now, REQUEST_LOCK, files, sub, chk, reaper>>

\* as ProgressAt, counting the segment that is about to start
ProgressStarted(i) == i + 1
\* the progress written at the top of iteration i (line 235)
ProgressAt(i) == i

\* lines 228-248: progress is written, then the synthesis call is made
ProcProgress(j) ==
  /\ Running
  /\ proc[j].pc = "loop"
  /\ REQUEST_LOCK = NoHolder
  /\ IF Known(Rid(j))
     THEN /\ PODCAST_REQUESTS' = [PODCAST_REQUESTS EXCEPT ![Rid(j)].progress = ProgressAt(proc[j].i)]
          /\ proc' = [proc EXCEPT ![j].pc = "synth"]
     ELSE /\ proc' = Raise(j, "KeyError")
          /\ UNCHANGED PODCAST_REQUESTS
  /\ UNCHANGED <<pure, tts, lifespan, now, REQUEST_LOCK, files, sub, chk, reaper>>

AfterSegment(j) == IF proc[j].i + 1 < Len(Conv(j)) THEN "loop" ELSE "combine"

Detail(j, i) ==
  LET segment == Conv(j)[i + 1]
  IN  [index |-> i, speaker |-> segment.speaker, voice |-> PODCAST_VOICES[segment.speaker],
       text |-> segment.text, length |-> TextLen(segment.text),
       word_count |-> WordCount(segment.text)]

\* lines 248-270: generate_speech returned, the segment's file is written
ProcSynthOk(j) ==
  /\ Running
  /\ proc[j].pc = "synth"
  /\ LET i == proc[j].i
         segment == Conv(j)[i + 1]
     IN  /\ files' = Put(files, SegmentPath(Rid(j), i),
                         <<Audio(segment.text, PODCAST_VOICES[segment.speaker],
                                 sub[j].rate, sub[j].volume)>>)
         /\ proc' = [proc EXCEPT ![j] = [@ EXCEPT
                        !.pc = AfterSegment(j), !.i = i + 1,
                        !.temp_files = Append(@, SegmentPath(Rid(j), i)),
                        !.segment_details = Append(@, Detail(j, i))]]
  /\ UNCHANGED <<pure, tts, lifespan, now, PODCAST_REQUESTS, REQUEST_LOCK, sub, chk, reaper>>

\* lines 272-282: generate_speech raised; the error is recorded under the
\* lock and the loop goes on (the task waits here while the lock is held)
ProcSynthFail(j) ==
  /\ Running
  /\ proc[j].pc = "synth"
  /\ REQUEST_LOCK = NoHolder
  /\ IF Known(Rid(j))
     THEN /\ PODCAST_REQUESTS' = [PODCAST_REQUESTS EXCEPT ![Rid(j)].errors =
                 Append(@, [segment |-> proc[j].i, error |-> "SynthesisError"])]
          /\ proc' = [proc EXCEPT ![j] = [@ EXCEPT !.pc = AfterSegment(j), !.i = @ + 1]]
     ELSE /\ proc' = Raise(j, "KeyError")
          /\ UNCHANGED PODCAST_REQUESTS
  /\ UNCHANGED <<pure, tts, lifespan, now, REQUEST_LOCK, files, sub, chk, reaper>>

\* the paths of a list that can be read, up to the first missing one
RECURSIVE Readable(_)
Readable(paths) ==
  IF paths = <<>> \/ Head(paths) \notin DOMAIN files THEN <<>>
  ELSE <<Head(paths)>> \o Readable(Tail(paths))

\* outfile.write(infile.read()) for each path, in order
RECURSIVE Concat(_)
Concat(paths) == IF paths = <<>> THEN <<>> ELSE files[Head(paths)] \o Concat(Tail(paths))

ErrorResult(msg, type) == [status |-> "error", error |-> msg, error_type |-> type]

\* lines 285-294 and 342-351
ProcCombine(j) ==
  /\ Running
  /\ proc[j].pc = "combine"
  /\ IF Len(proc[j].temp_files) > 0
     THEN LET ok == Readable(proc[j].temp_files)
          IN  /\ files' = Put(files, OutputPath(Rid(j)), Concat(ok))
              /\ proc' = IF ok = proc[j].temp_files
                         THEN [proc EXCEPT ![j].pc = "cleanup"]
                         ELSE Raise(j, "FileNotFoundError")
     ELSE /\ proc' = [proc EXCEPT ![j] = [@ EXCEPT !.pc = "finish",
                        !.result = ErrorResult("No audio segments were successfully generated",
                                               "ProcessingError")]]
          /\ UNCHANGED files
  /\ UNCHANGED <<pure, tts, lifespan, now, PODCAST_REQUESTS, REQUEST_LOCK, sub, chk, reaper>>

\* lines 291-294: the output file cannot be opened or written (OSError);
\* control goes to the except clause of line 365
ProcCombineFail(j) ==
  /\ Running
  /\ proc[j].pc = "combine"
  /\ Len(proc[j].temp_files) > 0
  /\ proc' = Raise(j, "OSError")
  /\ UNCHANGED <<pure, tts, lifespan, now, PODCAST_REQUESTS, REQUEST_LOCK, files, sub, chk, reaper>>

SuccessResult(j) ==
  [status |-> "success", segments_processed |-> Len(proc[j].temp_files),
   total_segments |-> Len(Conv(j)), segments |-> proc[j].segment_details,
   total_words |-> SumWords(proc[j].segment_details),
   audio_file |-> OutputPath(Rid(j))]

Range(q) == { q[k] : k \in 1..Len(q) }

\* lines 315-341: os.remove of every segment file (a failure is only logged)
ProcCleanup(j) ==
  /\ Running
  /\ proc[j].pc = "cleanup"
  /\ files' = Del(files, Range(proc[j].temp_files))
  /\ proc' = [proc EXCEPT ![j] = [@ EXCEPT !.pc = "finish", !.result = SuccessResult(j)]]
  /\ UNCHANGED <<pure, tts, lifespan, now, PODCAST_REQUESTS, REQUEST_LOCK, sub, chk, reaper>>

\* as Finished, with the status completed whatever the result
FinishedAlwaysCompleted(rec, result, total_segments) ==
  [rec EXCEPT !.status = "completed", !.result = result, !.progress = total_segments]

\* the record after lines 355-361
Finished(rec, result, total_segments) ==
  IF result.status = "success"
  THEN [rec EXCEPT !.status = "completed", !.result = result, !.progress = total_segments]
  ELSE [rec EXCEPT !.status = "failed", !.result = result]

\* as ProcFinish, writing the record without taking the lock
ProcFinishUnlocked(j) ==
  /\ Running
  /\ proc[j].pc = "finish"
  /\ IF Known(Rid(j))
     THEN /\ PODCAST_REQUESTS' = [PODCAST_REQUESTS EXCEPT ![Rid(j)] =
                 Finished(@, proc[j].result, Len(Conv(j)))]
          /\ proc' = [proc EXCEPT ![j] = NoLocals("done")]
     ELSE /\ proc' = Raise(j, "KeyError")
          /\ UNCHANGED PODCAST_REQUESTS
  /\ UNCHANGED <<pure, tts, lifespan, now, REQUEST_LOCK, files, sub, chk, reaper>>

\* lines 353-363
ProcFinish(j) ==
  /\ Running
  /\ proc[j].pc = "finish"
  /\ REQUEST_LOCK = NoHolder
  /\ IF Known(Rid(j))
     THEN /\ PODCAST_REQUESTS' = [PODCAST_REQUESTS EXCEPT ![Rid(j)] =
                 Finished(@, proc[j].result, Len(Conv(j)))]
          /\ proc' = [proc EXCEPT ![j] = NoLocals("done")]
     ELSE /\ proc' = Raise(j, "KeyError")
          /\ UNCHANGED PODCAST_REQUESTS
  /\ UNCHANGED <<pure, tts, lifespan, now, REQUEST_LOCK, files, sub, chk, reaper>>

\* as ProcExcept, had the except clause stored a failed record for an id
\* that is no longer in the store
ProcExceptRecreates(j) ==
  /\ Running
  /\ proc[j].pc = "except"
  /\ REQUEST_LOCK = NoHolder
  /\ PODCAST_REQUESTS' =
       IF Known(Rid(j))
       THEN [PODCAST_REQUESTS EXCEPT ![Rid(j)] =
               [@ EXCEPT !.status = "failed", !.result = ErrorResult(proc[j].exc, proc[j].exc)]]
       ELSE Put(PODCAST_REQUESTS, Rid(j),
                [NewRecord(j) EXCEPT !.status = "failed",
                                     !.result = ErrorResult(proc[j].exc, proc[j].exc)])
  /\ proc' = [proc EXCEPT ![j] = NoLocals("done")]
  /\ UNCHANGED <<pure, tts, lifespan, now, REQUEST_LOCK, files, sub, chk, reaper>>

\* lines 365-384: the except clause; a KeyError inside it ends the task
ProcExcept(j) ==
  /\ Running
  /\ proc[j].pc = "except"
  /\ REQUEST_LOCK = NoHolder
  /\ IF Known(Rid(j))
     THEN /\ PODCAST_REQUESTS' = [PODCAST_REQUESTS EXCEPT ![Rid(j)] =
                 [@ EXCEPT !.status = "failed",
                           !.result = ErrorResult(proc[j].exc, proc[j].exc)]]
          /\ proc' = [proc EXCEPT ![j] = NoLocals("done")]
     ELSE /\ proc' = [proc EXCEPT ![j] = NoLocals("crashed")]
          /\ UNCHANGED PODCAST_REQUESTS
  /\ UNCHANGED <<pure, tts, lifespan, now, REQUEST_LOCK, files, sub, chk, reaper>>

\* ------------------------------------------------------------ check_podcast_status
\* dict.update: the keys of e override those of d
Update(d, e) == [k \in (DOMAIN d) \cup (DOMAIN e) |-> IF k \in DOMAIN e THEN e[k] ELSE d[k]]

\* round((progress / total_segments) * 100, 1), in tenths of a percent
ProgressPercentage(progress, total_segments) ==
  IF total_segments > 0 THEN (2000 * progress + total_segments) \div (2 * total_segments) ELSE 0

\* lines 598-606
BaseResponse(rid, rec) ==
  [status |-> rec.status, request_id |-> rid, progress |-> rec.progress,
   total_segments |-> rec.total_segments,
   progress_percentage |-> ProgressPercentage(rec.progress, rec.total_segments),
   submitted_at |-> rec.submitted_at]

\* lines 609-618: the result's keys are merged into the response
WithResult(resp, rec) ==
  IF rec.status \in {"completed", "failed"} /\ rec.result # NoResult
  THEN Update(resp, rec.result) ELSE resp

\* lines 620-622
WithErrors(resp, rec) ==
  IF rec.errors # <<>> THEN Update(resp, [errors |-> rec.errors]) ELSE resp

\* as NotFoundResponse, had the lookup raised into the except clause of line 630
NotFoundAsError(rid) == [status |-> "error", request_id |-> rid]

\* lines 583-586
NotFoundResponse(rid) == [status |-> "not_found", request_id |-> rid]

\* line 613-615: "await ctx.info" inside the "async with REQUEST_LOCK" block
AwaitsUnderLock(rec) ==
  /\ rec.status = "completed"
  /\ rec.result # NoResult
  /\ rec.result.status = "success"
  /\ "audio_file" \in DOMAIN rec.result

\* the ids a caller may ask about: every id handed out or stored, and one
\* that was never issued
NeverIssued == -2
AskableIds == (DOMAIN PODCAST_REQUESTS) \cup { sub[j].request_id : j \in { k \in Jobs : sub[k].pc = "returned" } }
                \cup {NeverIssued}

\* as CheckStatus, taking a record that has a result out of the store
CheckStatusConsumes(rid) ==
  /\ Running
  /\ chk.pc = "idle"
  /\ REQUEST_LOCK = NoHolder
  /\ IF ~Known(rid)
     THEN /\ chk' = [pc |-> "returned", request_id |-> rid, response |-> NotFoundResponse(rid)]
          /\ UNCHANGED PODCAST_REQUESTS
     ELSE LET rec == PODCAST_REQUESTS[rid]
          IN  /\ chk' = [pc |-> "returned", request_id |-> rid,
                         response |-> WithErrors(WithResult(BaseResponse(rid, rec), rec), rec)]
              /\ PODCAST_REQUESTS' = IF rec.result # NoResult THEN Del(PODCAST_REQUESTS, {rid})
                                                              ELSE PODCAST_REQUESTS
  /\ UNCHANGED <<pure, tts, lifespan, now, REQUEST_LOCK, files, sub, proc, reaper>>

\* lines 573-628
CheckStatus(rid) ==
  /\ Running
  /\ chk.pc = "idle"
  /\ REQUEST_LOCK = NoHolder
  /\ IF ~Known(rid)
     THEN /\ chk' = [pc |-> "returned", request_id |-> rid, response |-> NotFoundResponse(rid)]
          /\ UNCHANGED REQUEST_LOCK
     ELSE LET rec == PODCAST_REQUESTS[rid]
          IN  IF AwaitsUnderLock(rec)
              THEN /\ chk' = [pc |-> "locked", request_id |-> rid,
                              response |-> WithResult(BaseResponse(rid, rec), rec)]
                   /\ REQUEST_LOCK' = "check_podcast_status"
              ELSE /\ chk' = [pc |-> "returned", request_id |-> rid,
                              response |-> WithErrors(WithResult(BaseResponse(rid, rec), rec), rec)]
                   /\ UNCHANGED REQUEST_LOCK
  /\ UNCHANGED <<pure, tts, lifespan, now, PODCAST_REQUESTS, files, sub, proc, reaper>>

\* lines 620-628, after the await under the lock
CheckResume ==
  /\ Running
  /\ chk.pc = "locked"
  /\ chk' = [chk EXCEPT !.pc = "returned",
                        !.response = WithErrors(@, PODCAST_REQUESTS[chk.request_id])]
  /\ REQUEST_LOCK' = NoHolder
  /\ UNCHANGED <<pure, tts, lifespan, now, PODCAST_REQUESTS, files, sub, proc, reaper>>

\* the caller has the response; the handler is over
CheckDeliver ==
  /\ chk.pc = "returned"
  /\ chk' = [pc |-> "idle", request_id |-> NoId, response |-> NoResponse]
  /\ UNCHANGED <<pure, tts, lifespan, now, PODCAST_REQUESTS, REQUEST_LOCK, files, sub, proc, reaper>>

\* ------------------------------------------------------------ cleanup_old_requests
\* as Expired, with no retention at all
ExpiredAtOnce(rec, current_time) == current_time - rec.submitted_at >= 0
\* as Expired, one tick late
ExpiredLate(rec, current_time) == current_time - rec.submitted_at > ExpiryTicks + 1
\* as Expired, with >= for >
ExpiredInclusive(rec, current_time) == current_time - rec.submitted_at >= ExpiryTicks

\* line 177
Expired(rec, current_time) == current_time - rec.submitted_at > ExpiryTicks

\* lines 175-178
RequestsToRemove(current_time) ==
  { rid \in DOMAIN PODCAST_REQUESTS : Expired(PODCAST_REQUESTS[rid], current_time) }

\* as ReaperCycle, not waiting for the lock
ReaperCycleUnlocked ==
  /\ Running
  /\ reaper.pc = "run"
  /\ PODCAST_REQUESTS' = Del(PODCAST_REQUESTS, RequestsToRemove(now))
  /\ reaper' = [pc |-> "sleep", current_time |-> now, wake_at |-> now + IntervalTicks]
  /\ UNCHANGED <<pure, tts, lifespan, now, REQUEST_LOCK, files, sub, proc, chk>>

\* lines 171-187 when the lock is free: snapshot, scan, delete, sleep
ReaperCycle ==
  /\ Running
  /\ reaper.pc = "run"
  /\ REQUEST_LOCK = NoHolder
  /\ PODCAST_REQUESTS' = Del(PODCAST_REQUESTS, RequestsToRemove(now))
  /\ reaper' = [pc |-> "sleep", current_time |-> now, wake_at |-> now + IntervalTicks]
  /\ UNCHANGED <<pure, tts, lifespan, now, REQUEST_LOCK, files, sub, proc, chk>>

\* lines 171-174 when the lock is held: the snapshot is taken, the task waits
ReaperWait ==
  /\ Running
  /\ reaper.pc = "run"
  /\ REQUEST_LOCK # NoHolder
  /\ reaper' = [reaper EXCEPT !.pc = "waiting", !.current_time = now]
  /\ UNCHANGED <<pure, tts, lifespan, now, PODCAST_REQUESTS, REQUEST_LOCK, files, sub, proc, chk>>

\* lines 174-187 once the lock is free: scan with the snapshot taken before
ReaperScan ==
  /\ Running
  /\ reaper.pc = "waiting"
  /\ REQUEST_LOCK = NoHolder
  /\ PODCAST_REQUESTS' = Del(PODCAST_REQUESTS, RequestsToRemove(reaper.current_time))
  /\ reaper' = [reaper EXCEPT !.pc = "sleep", !.wake_at = now + IntervalTicks]
  /\ UNCHANGED <<pure, tts, lifespan, now, REQUEST_LOCK, files, sub, proc, chk>>

\* the steps of the tasks, for the play_podcast calls J
Step(J) ==
  \/ \E d \in {1, ExpiryTicks} : Tick(d)
  \/ \E j \in J, request \in Requests : SubmitCall(j, request)
  \/ \E j \in J : SubmitStore(j)
  \/ \E j \in J : SubmitReject(j)
  \/ \E j \in J : ProcStart(j)
  \/ \E j \in J : ProcProgress(j)
  \/ \E j \in J : ProcSynthOk(j)
  \/ \E j \in J : ProcSynthFail(j)
  \/ \E j \in J : ProcCombine(j)
  \/ \E j \in J : ProcCombineFail(j)
  \/ \E j \in J : ProcCleanup(j)
  \/ \E j \in J : ProcFinish(j)
  \/ \E j \in J : ProcExcept(j)
  \/ \E rid \in AskableIds : CheckStatus(rid)
  \/ CheckResume
  \/ ReaperCycle
  \/ ReaperWait
  \/ ReaperScan

Next == CheckDeliver \/ Step(Jobs)

Spec == Init /\ [][Next]_vars

\* One play_podcast call, with the fairness of asyncio: the ready queue and
\* the waiters of the lock are served in turn, so a task that is runnable
\* again and again does run, and the Reaper loops for the lifetime of the
\* process.
OneJobNext == CheckDeliver \/ Step({1})
ReaperRuns == ReaperCycle \/ ReaperWait
FairSpec ==
  /\ Init
  /\ [][OneJobNext]_vars
  /\ WF_vars(CheckDeliver)
  /\ WF_vars(CheckResume)
  /\ SF_vars(ReaperRuns)
  /\ SF_vars(ReaperScan)

\* as ReaperRaise, with the exception ending the task
ReaperDies ==
  /\ Running
  /\ reaper.pc \in {"run", "waiting"}
  /\ REQUEST_LOCK = NoHolder
  /\ reaper' = [reaper EXCEPT !.pc = "dead"]
  /\ UNCHANGED <<pure, tts, lifespan, now, PODCAST_REQUESTS, REQUEST_LOCK, files, sub, proc, chk>>

\* lines 188-191: an exception is raised inside the block under the lock,
\* before any deletion; the lock is released, the except clause logs and
\* sleeps one interval
ReaperRaise ==
  /\ Running
  /\ reaper.pc \in {"run", "waiting"}
  /\ REQUEST_LOCK = NoHolder
  /\ reaper' = [pc |-> "backoff",
                current_time |-> IF reaper.pc = "run" THEN now ELSE reaper.current_time,
                wake_at |-> now + IntervalTicks]
  /\ UNCHANGED <<pure, tts, lifespan, now, PODCAST_REQUESTS, REQUEST_LOCK, files, sub, proc, chk>>

\* One play_podcast call and a Reaper whose cycles may raise, with the
\* fairness of asyncio; time passes.
ReaperNext == OneJobNext \/ ReaperRaise
Passes == \E d \in {1, ExpiryTicks} : Tick(d)
ReaperSpec ==
  /\ Init
  /\ [][ReaperNext]_vars
  /\ WF_vars(CheckDeliver)
  /\ WF_vars(CheckResume)
  /\ SF_vars(ReaperRuns)
  /\ SF_vars(ReaperScan)
  /\ SF_vars(Passes)

\* as Shutdown, with the cancellation of a sleeping Reaper caught by the
\* except clause of its loop
ShutdownCaught ==
  /\ Running
  /\ lifespan = "running"
  /\ lifespan' = "shutdown"
  /\ reaper' = IF reaper.pc = "sleep"
                THEN [reaper EXCEPT !.pc = "backoff", !.wake_at = now + IntervalTicks]
                ELSE [reaper EXCEPT !.pc = "cancelled"]
  /\ UNCHANGED <<pure, tts, now, PODCAST_REQUESTS, REQUEST_LOCK, files, sub, proc, chk>>

\* server_lifespan, lines 398-403: the finally clause cancels the Reaper task
\* and returns.  The task is suspended at an await (the sleep of line 187 or
\* of line 191, or the acquisition of the lock), where CancelledError is
\* raised; it is no Exception, so the except clause of line 188 lets it
\* through and the task ends.  No process_podcast_request task is cancelled
\* or awaited.
Shutdown ==
  /\ Running
  /\ lifespan = "running"
  /\ lifespan' = "shutdown"
  /\ reaper' = [reaper EXCEPT !.pc = "cancelled"]
  /\ UNCHANGED <<pure, tts, now, PODCAST_REQUESTS, REQUEST_LOCK, files, sub, proc, chk>>

\* One play_podcast call, a Reaper whose cycles may raise, and the shutdown
\* of the server at any moment; the tasks left behind may still take steps.
LifespanNext == ReaperNext \/ Shutdown
LifespanSpec == Init /\ [][LifespanNext]_vars

\* a step of the run of job j
ProcStep(j) ==
  \/ ProcStart(j) \/ ProcProgress(j) \/ ProcSynthOk(j) \/ ProcSynthFail(j)
  \/ ProcCombine(j) \/ ProcCombineFail(j) \/ ProcCleanup(j) \/ ProcFinish(j) \/ ProcExcept(j)

\* FairSpec, where moreover play_podcast gets to store its record, every
\* synthesis call returns and the run of the job gets its turn whenever it
\* can go on again and again
JobFairSpec ==
  /\ FairSpec
  /\ SF_vars(SubmitStore(1))
  /\ SF_vars(ProcStep(1))

\* ------------------------------------------------------------ the validators alone
server == <<now, PODCAST_REQUESTS, REQUEST_LOCK, files, sub, proc, chk, reaper, tts, lifespan>>

\* the rate and volume strings tried: every string of up to MaxPercentLen
\* of these characters
PercentChars == {"+", "-", "%", "0", "1", "_", " "}
PercentInputs == UNION { [1..n -> PercentChars] : n \in 0..MaxPercentLen }

\* the speaker strings tried
SpeakerChars == {"m", "a", "l", "e", "f", "M"}
SpeakerInputs == UNION { [1..n -> SpeakerChars] : n \in 0..MaxSpeakerLen }

\* the conversation entries tried: three speakers and every text, under
\* lower-case keys; capitalised keys; an entry without a text and one
\* without a speaker
EntrySpeakers == { <<"m", "a", "l", "e">>, <<"F", "e", "M", "A", "L", "E">>, <<"b", "o", "t">> }
Entries ==
  { [speaker |-> sp, text |-> t] : sp \in EntrySpeakers, t \in Texts }
    \cup { [Speaker |-> <<"M", "a", "l", "e">>, Text |-> "Hello!"],
           [speaker |-> <<"b", "o", "t">>], [text |-> "  "], [text |-> LongText] }
RequestInputs ==
  { [conversation |-> c, rate |-> r, volume |-> v] :
      c \in UNION { [1..n -> Entries] : n \in 0..MaxSegs },
      r \in { PlusZero, <<"-", "1", "0", "0", "%">>, <<"1", "0", "%">> },
      v \in { PlusZero, <<"+", "1", "0", "1", "%">> } }

ValidatorInit ==
  /\ ServerInit
  /\ pure \in { [fn |-> "validate_percentage", pc |-> "call", arg |-> v] : v \in PercentInputs }
             \cup { [fn |-> "validate_speaker", pc |-> "call", arg |-> v] : v \in SpeakerInputs }
             \cup { [fn |-> "play_podcast", pc |-> "call", arg |-> q] : q \in RequestInputs }

CallValidatePercentage ==
  /\ pure.fn = "validate_percentage" /\ pure.pc = "call"
  /\ pure' = [fn |-> pure.fn, pc |-> "return", arg |-> pure.arg,
               out |-> validate_percentage(pure.arg)]
  /\ UNCHANGED server

CallValidateSpeaker ==
  /\ pure.fn = "validate_speaker" /\ pure.pc = "call"
  /\ pure' = [fn |-> pure.fn, pc |-> "return", arg |-> pure.arg,
               out |-> validate_speaker(pure.arg)]
  /\ UNCHANGED server

CallValidateRequest ==
  /\ pure.fn = "play_podcast" /\ pure.pc = "call"
  /\ pure' = [fn |-> pure.fn, pc |-> "return", arg |-> pure.arg,
               out |-> ValidateRequest(pure.arg)]
  /\ UNCHANGED server

ValidatorNext == CallValidatePercentage \/ CallValidateSpeaker \/ CallValidateRequest
ValidatorSpec == ValidatorInit /\ [][ValidatorNext]_vars

\* ------------------------------------------------------------ chunk_text
\* (edge_tts_mcp_server.py, lines 196-242); a text is its characters

\* text.replace(c + " ", c + "|") for a one-character c, left to right
RECURSIVE Replace(_, _)
Replace(text, c) ==
  IF Len(text) < 2 THEN text
  ELSE IF text[1] = c /\ text[2] = " "
       THEN <<c, "|">> \o Replace(SubSeq(text, 3, Len(text)), c)
       ELSE <<text[1]>> \o Replace(Tail(text), c)

\* text.split("|"): the pieces between the separators, empty ones included
RECURSIVE SplitBar(_, _)
SplitBar(text, piece) ==
  IF text = <<>> THEN <<piece>>
  ELSE IF Head(text) = "|" THEN <<piece>> \o SplitBar(Tail(text), <<>>)
       ELSE SplitBar(Tail(text), Append(piece, Head(text)))

\* sentence.split(): the maximal runs of characters other than whitespace
RECURSIVE SplitWords(_, _)
SplitWords(text, word) ==
  IF text = <<>> THEN (IF word = <<>> THEN <<>> ELSE <<word>>)
  ELSE IF Head(text) = " "
       THEN (IF word = <<>> THEN <<>> ELSE <<word>>) \o SplitWords(Tail(text), <<>>)
       ELSE SplitWords(Tail(text), Append(word, Head(text)))

\* line 208
Sentences(text) == SplitBar(Replace(Replace(Replace(text, "."), "?"), "!"), <<>>)

\* as WordLoop, with the joining space left out of the length test
RECURSIVE WordLoopUncounted(_, _, _, _)
WordLoopUncounted(words, chunks, current_chunk, max_length) ==
  IF words = <<>> THEN [chunks |-> chunks, current_chunk |-> current_chunk]
  ELSE LET word == Head(words)
       IN  IF Len(current_chunk) + Len(word) <= max_length
           THEN WordLoopUncounted(Tail(words), chunks,
                         IF current_chunk # <<>> THEN current_chunk \o <<" ">> \o word ELSE word,
                         max_length)
           ELSE WordLoopUncounted(Tail(words), Append(chunks, current_chunk), word, max_length)

\* lines 227-235: the loop over the words of a sentence that is too long
RECURSIVE WordLoop(_, _, _, _)
WordLoop(words, chunks, current_chunk, max_length) ==
  IF words = <<>> THEN [chunks |-> chunks, current_chunk |-> current_chunk]
  ELSE LET word == Head(words)
       IN  IF Len(current_chunk) + Len(word) + 1 <= max_length
           THEN WordLoop(Tail(words), chunks,
                         IF current_chunk # <<>> THEN current_chunk \o <<" ">> \o word ELSE word,
                         max_length)
           ELSE WordLoop(Tail(words), Append(chunks, current_chunk), word, max_length)

\* lines 213-237: the loop over the sentences
RECURSIVE SentenceLoop(_, _, _, _)
SentenceLoop(sentences, chunks, current_chunk, max_length) ==
  IF sentences = <<>> THEN [chunks |-> chunks, current_chunk |-> current_chunk]
  ELSE LET sentence == Head(sentences)
       IN  IF Len(current_chunk) + Len(sentence) + 1 <= max_length
           THEN SentenceLoop(Tail(sentences), chunks,
                             IF current_chunk # <<>> THEN current_chunk \o <<" ">> \o sentence
                                                     ELSE sentence,
                             max_length)
           ELSE LET flushed == IF current_chunk # <<>> THEN Append(chunks, current_chunk) ELSE chunks
                IN  IF Len(sentence) > max_length
                    THEN LET w == WordLoop(SplitWords(sentence, <<>>), flushed, <<>>, max_length)
                         IN  SentenceLoop(Tail(sentences), w.chunks, w.current_chunk, max_length)
                    ELSE SentenceLoop(Tail(sentences), flushed, sentence, max_length)

\* lines 196-242
chunk_text(text, max_length) ==
  LET r == SentenceLoop(Sentences(text), <<>>, <<>>, max_length)
  IN  IF r.current_chunk # <<>> THEN Append(r.chunks, r.current_chunk) ELSE r.chunks

\* the texts and chunk sizes tried
TextChars == {"a", "b", " ", ".", "?", "!", "|"}
TextInputs == UNION { [1..n -> TextChars] : n \in 0..MaxTextLen }

SegmenterInit ==
  /\ ServerInit
  /\ pure \in { [fn |-> "chunk_text", pc |-> "call", arg |-> [text |-> t, max_length |-> m]] :
                   t \in TextInputs, m \in 1..MaxChunkLen }

CallChunkText ==
  /\ pure.fn = "chunk_text" /\ pure.pc = "call"
  /\ pure' = [fn |-> pure.fn, pc |-> "return", arg |-> pure.arg,
               out |-> chunk_text(pure.arg.text, pure.arg.max_length)]
  /\ UNCHANGED server

SegmenterSpec == SegmenterInit /\ [][CallChunkText]_vars

\* ------------------------------------------------------------ text_to_speech
\* The tool of edge_tts_mcp_server.py.  Its texts are longer than any text
\* chunk_text is run on above, so a text is given by its length, by the
\* number of chunks chunk_text splits it into, and by the length of
\* text.strip() (one text consists of whitespace only).
TtsTexts ==
  { [length |-> n, chunks |-> 0, stripped |-> n] : n \in {0, 6, ChunkThreshold} }
    \cup { [length |-> 6, chunks |-> 0, stripped |-> 0] }
    \cup { [length |-> ChunkThreshold + 1, chunks |-> n, stripped |-> ChunkThreshold + 1] :
              n \in 0..MaxChunks }
    \cup { [length |-> MaxTextLength + 1, chunks |-> MaxChunks, stripped |-> MaxTextLength + 1] }
TtsRequests ==
  { [text |-> t, voice |-> v, rate |-> r, volume |-> PlusZero] :
      t \in TtsTexts, v \in {"en-US-GuyNeural", "en-US-SaraNeural"},
      r \in {PlusZero, <<"1", "0", "%">>} }
\* chunk_text(text), for a text of text_to_speech
TtsChunks(text) == [k \in 1..text.chunks |-> <<"chunk", k - 1>>]

OutputFile(rid) == <<"edge_tts_output", rid>>
ChunkFile(rid, i) == <<"edge_tts_chunk", rid, i>>

\* TTSInput.validate_text_length
validate_text_length(v) ==
  IF v.length <= 0 THEN Rejected("Text cannot be empty")
  ELSE IF v.length > MaxTextLength THEN Rejected("Text exceeds maximum length")
  ELSE Accepted(v)
\* TTSInput(text, voice, rate, volume): the first validator that raises
\* gives the error
TTSInput(request) ==
  LET text == validate_text_length(request.text)
      rate == validate_percentage(request.rate)
      volume == validate_percentage(request.volume)
  IN  IF ~text.ok THEN text
      ELSE IF ~rate.ok THEN rate
      ELSE IF ~volume.ok THEN volume
      ELSE Accepted(request)

\* the two payloads text_to_speech returns
TtsSuccess(call, t) ==
  [status |-> "success", voice |-> call.request.voice,
   text_length |-> call.request.text.length,
   audio_file |-> OutputFile(call.request_id),
   processing_time |-> t - call.start_time]
TtsError(error, error_type) ==
  [status |-> "error", error |-> error, error_type |-> error_type]
TtsReturn(call, response) == [call EXCEPT !.pc = "returned", !.response = response]

\* the audio of chunk i (0-based) of a call
ChunkAudio(call, i) ==
  Audio(call.chunks[i + 1], call.request.voice, call.request.rate, call.request.volume)

\* text_to_speech up to its first await: the request id, the validation, the
\* split into chunks.  A request that fails validation, and a long text
\* without any chunk (temp_files[0] raises IndexError), return at once.
TtsCall(c, request) ==
  /\ tts[c].pc = "idle"
  /\ LET input == TTSInput(request)
         call == [pc |-> "idle", start_time |-> now, request_id |-> RequestId(now),
                  request |-> request, chunks |-> <<>>, temp_files |-> <<>>,
                  response |-> NoResponse]
         chunks == TtsChunks(request.text)
     IN  tts' = [tts EXCEPT ![c] =
           IF ~input.ok THEN TtsReturn(call, TtsError(input.error, "ValidationError"))
           ELSE IF request.text.length > ChunkThreshold
             THEN IF chunks = <<>>
                    THEN TtsReturn(call, TtsError("list index out of range", "IndexError"))
                    ELSE [call EXCEPT !.pc = "chunk", !.chunks = chunks]
             ELSE [call EXCEPT !.pc = "direct"]]
  /\ UNCHANGED <<pure, lifespan, now, PODCAST_REQUESTS, REQUEST_LOCK, files, sub, proc, chk, reaper>>

\* the chunk files that can be read, in order, up to the first missing one
ReadChunks(fs, temp_files) ==
  LET missing == { k \in 1..Len(temp_files) : temp_files[k] \notin DOMAIN fs }
      upto == IF missing = {} THEN Len(temp_files)
              ELSE (CHOOSE k \in missing : \A m \in missing : k <= m) - 1
  IN  [k \in 1..upto |-> fs[temp_files[k]]]

\* generate_speech of a chunk swallowed instead of raised: the loop goes on
\* with the next chunk
TtsChunkSkipped(c) ==
  /\ tts[c].pc = "chunk"
  /\ LET call == tts[c]
         i == Len(call.temp_files)
         skipped == [call EXCEPT !.chunks = SubSeq(call.chunks, 1, i)
                                           \o SubSeq(call.chunks, i + 2, Len(call.chunks))]
     IN  tts' = [tts EXCEPT ![c] =
           IF Len(skipped.chunks) = Len(skipped.temp_files)
             THEN TtsReturn(skipped, TtsSuccess(skipped, now))
             ELSE skipped]
  /\ UNCHANGED <<pure, lifespan, now, PODCAST_REQUESTS, REQUEST_LOCK, files, sub, proc, chk, reaper>>

\* generate_speech of a chunk returns (line 326); after the last chunk the
\* files are concatenated and removed, or the only one renamed, and the call
\* returns (lines 332-364).  A chunk file that is gone raises
\* FileNotFoundError with the output file already opened for writing.
TtsChunkOk(c) ==
  /\ tts[c].pc = "chunk"
  /\ LET call == tts[c]
         i == Len(call.temp_files)
         temp_output == ChunkFile(call.request_id, i)
         written == Put(files, temp_output, <<ChunkAudio(call, i)>>)
         temp_files == Append(call.temp_files, temp_output)
         output_file == OutputFile(call.request_id)
         synthesized == [call EXCEPT !.temp_files = temp_files]
         read == ReadChunks(written, temp_files)
         joined == [k \in 1..Len(read) |-> read[k][1]]
     IN  IF Len(temp_files) < Len(call.chunks)
           THEN /\ tts' = [tts EXCEPT ![c] = synthesized]
                /\ files' = written
         ELSE IF Len(temp_files) > 1
           THEN IF Len(read) < Len(temp_files)
                  THEN /\ files' = Put(written, output_file, joined)
                       /\ tts' = [tts EXCEPT ![c] =
                            TtsReturn(synthesized, TtsError("No such file", "FileNotFoundError"))]
                  ELSE /\ files' = Del(Put(written, output_file, joined),
                                       { temp_files[k] : k \in 1..Len(temp_files) })
                       /\ tts' = [tts EXCEPT ![c] =
                            TtsReturn(synthesized, TtsSuccess(call, now))]
         ELSE /\ files' = Put(Del(written, {temp_output}), output_file, written[temp_output])
              /\ tts' = [tts EXCEPT ![c] = TtsReturn(synthesized, TtsSuccess(call, now))]
  /\ UNCHANGED <<pure, lifespan, now, PODCAST_REQUESTS, REQUEST_LOCK, sub, proc, chk, reaper>>

\* generate_speech of a chunk raises: the except clause returns the error
\* (lines 366-375)
TtsChunkFail(c) ==
  /\ tts[c].pc = "chunk"
  /\ tts' = [tts EXCEPT ![c] = TtsReturn(tts[c], TtsError("No audio was received", "Exception"))]
  /\ UNCHANGED <<pure, lifespan, now, PODCAST_REQUESTS, REQUEST_LOCK, files, sub, proc, chk, reaper>>

\* generate_speech of a short text returns (line 349), and the call returns
TtsDirectOk(c) ==
  /\ tts[c].pc = "direct"
  /\ LET call == tts[c]
     IN  /\ files' = Put(files, OutputFile(call.request_id),
                         <<Audio(call.request.text, call.request.voice,
                                 call.request.rate, call.request.volume)>>)
         /\ tts' = [tts EXCEPT ![c] = TtsReturn(call, TtsSuccess(call, now))]
  /\ UNCHANGED <<pure, lifespan, now, PODCAST_REQUESTS, REQUEST_LOCK, sub, proc, chk, reaper>>

\* generate_speech of a short text raises
TtsDirectFail(c) ==
  /\ tts[c].pc = "direct"
  /\ tts' = [tts EXCEPT ![c] = TtsReturn(tts[c], TtsError("No audio was received", "Exception"))]
  /\ UNCHANGED <<pure, lifespan, now, PODCAST_REQUESTS, REQUEST_LOCK, files, sub, proc, chk, reaper>>

TtsNext ==
  \/ \E d \in {1, ExpiryTicks} : Tick(d)
  \/ \E c \in Calls, request \in TtsRequests : TtsCall(c, request)
  \/ \E c \in Calls : TtsChunkOk(c)
  \/ \E c \in Calls : TtsChunkFail(c)
  \/ \E c \in Calls : TtsDirectOk(c)
  \/ \E c \in Calls : TtsDirectFail(c)

TtsSpec == Init /\ [][TtsNext]_vars

\* ============================================================ the claims

\* the step with which the run of job j ends (it returns, or dies of an exception)
Ends(j) == proc[j].pc \notin {"none", "done", "crashed"} /\ proc'[j].pc \in {"done", "crashed"}
\* every segment of job j has been attempted
AllAttempted(j) == proc[j].pc \in {"combine", "cleanup", "finish", "except"} /\ proc[j].i = Len(Conv(j))
\* the audio of segment i (0-based) of job j
SegmentAudio(j, i) ==
  Audio(Conv(j)[i + 1].text, PODCAST_VOICES[Conv(j)[i + 1].speaker], sub[j].rate, sub[j].volume)
\* the audio of the segments listed in details, in that order
RECURSIVE AudioOf(_, _)
AudioOf(j, details) ==
  IF details = <<>> THEN <<>>
  ELSE <<SegmentAudio(j, Head(details).index)>> \o AudioOf(j, Tail(details))
AllIndices(j) == [k \in 1..Len(Conv(j)) |-> [index |-> k - 1]]
\* some play_podcast call has returned rid at the present instant
JustReturned(rid) ==
  \E j \in Jobs : sub[j].pc = "returned" /\ sub[j].just_returned /\ sub[j].request_id = rid
Issued(rid) == \E j \in Jobs : sub[j].pc = "returned" /\ sub[j].request_id = rid

\* C1: when an accepted play_podcast call returns "submitted", the record of
\* its id is in the store with status submitted and the run of the job has
\* taken no step; every step of the run comes after the return.
C1_SubmitDoesNotWait ==
  [][\A j \in Jobs :
       /\ (sub[j].pc # "returned" /\ sub'[j].pc = "returned")
            => /\ sub'[j].response.status = "submitted"
               /\ sub'[j].request_id \in DOMAIN PODCAST_REQUESTS'
               /\ PODCAST_REQUESTS'[sub'[j].request_id].status = "submitted"
               /\ proc'[j].pc = "start"
       /\ (proc[j].pc # "none" /\ proc'[j] # proc[j]) => sub[j].pc = "returned"]_vars

C1_Witness ==
  \E j \in Jobs : /\ sub[j].pc = "returned" /\ sub[j].just_returned
                  /\ proc[j].pc = "start"
                  /\ Known(Rid(j)) /\ PODCAST_REQUESTS[Rid(j)].status = "submitted"
                  /\ \E k \in Jobs : proc[k].pc = "synth"

\* C2: no two accepted play_podcast calls are given the same request id.
C2_UniqueIds ==
  \A j, k \in Jobs :
    (j # k /\ sub[j].pc = "returned" /\ sub[k].pc = "returned")
      => sub[j].request_id # sub[k].request_id

\* C3 as stated: a check_podcast_status made at the instant the play_podcast
\* call returned reports submitted or processing.
C3_ImmediateSubmittedOrProcessing ==
  (chk.pc = "returned" /\ JustReturned(chk.request_id))
    => chk.response.status \in {"submitted", "processing"}

\* C3 as amended: such a check never reports not_found; it reports submitted
\* or processing, or the status of the result (success, error) once a run on
\* that id has ended.
C3_ImmediateNeverNotFound ==
  (chk.pc = "returned" /\ JustReturned(chk.request_id))
    => /\ chk.response.status \in {"submitted", "processing", "success", "error"}
       /\ chk.response.status \in {"success", "error"}
            => \E k \in Jobs : proc[k].pc = "done" /\ Rid(k) = chk.request_id

C3_Witness ==
  /\ chk.pc = "returned" /\ JustReturned(chk.request_id)
  /\ chk.response.status = "success"

\* C4: a run of N segments whose N synthesis calls all succeeded (and whose
\* final file the operating system let it write) ends with the record
\* completed, progress N, and the final file holding the audio of the N
\* segments in order.
C4_AllSucceed ==
  [][\A j \in Jobs :
       (Ends(j) /\ AllAttempted(j) /\ Len(proc[j].temp_files) = Len(Conv(j))
          /\ proc[j].exc # "OSError")
         => /\ Rid(j) \in DOMAIN PODCAST_REQUESTS'
            /\ PODCAST_REQUESTS'[Rid(j)].status = "completed"
            /\ PODCAST_REQUESTS'[Rid(j)].progress = Len(Conv(j))
            /\ OutputPath(Rid(j)) \in DOMAIN files'
            /\ files'[OutputPath(Rid(j))] = AudioOf(j, AllIndices(j))]_vars

\* C5: a run of N > 1 segments in which exactly one call failed (and whose
\* final file the operating system let it write) ends with the record
\* completed, errors holding one entry, for the failed index, and the final
\* file holding the audio of the other N-1 segments in order.
C5_OneFails ==
  [][\A j \in Jobs :
       (Ends(j) /\ AllAttempted(j) /\ Len(Conv(j)) > 1
          /\ Len(proc[j].temp_files) = Len(Conv(j)) - 1 /\ proc[j].exc # "OSError")
         => LET done == { proc[j].segment_details[n].index : n \in 1..Len(proc[j].segment_details) }
                k == CHOOSE i \in 0..(Len(Conv(j)) - 1) : i \notin done
            IN  /\ Rid(j) \in DOMAIN PODCAST_REQUESTS'
                /\ PODCAST_REQUESTS'[Rid(j)].status = "completed"
                /\ Len(PODCAST_REQUESTS'[Rid(j)].errors) = 1
                /\ PODCAST_REQUESTS'[Rid(j)].errors[1].segment = k
                /\ OutputPath(Rid(j)) \in DOMAIN files'
                /\ files'[OutputPath(Rid(j))] = AudioOf(j, proc[j].segment_details)]_vars

\* C6: a run in which every synthesis call failed ends with the record
\* failed, its result the error "no segment succeeded", and the run writes no
\* final file.
C6_AllFail ==
  [][\A j \in Jobs :
       (AllAttempted(j) /\ proc[j].temp_files = <<>> /\ proc'[j] # proc[j])
         => /\ files' = files
            /\ Ends(j) =>
                 /\ Rid(j) \in DOMAIN PODCAST_REQUESTS'
                 /\ PODCAST_REQUESTS'[Rid(j)].status = "failed"
                 /\ PODCAST_REQUESTS'[Rid(j)].result =
                      ErrorResult("No audio segments were successfully generated",
                                  "ProcessingError")]_vars

\* C7: the status of every check_podcast_status response is one of submitted,
\* processing, completed, failed, not_found.
C7_StatusValues ==
  chk.pc = "returned"
    => chk.response.status \in {"submitted", "processing", "completed", "failed", "not_found"}

\* C8: check_podcast_status on an id with no record returns not_found (it
\* does not end in the except clause) and creates no record.
C8_UnknownIsNotFound ==
  [][(chk.pc = "idle" /\ chk'.pc # "idle" /\ chk'.request_id \notin DOMAIN PODCAST_REQUESTS)
       => /\ chk'.pc = "returned"
          /\ chk'.response.status = "not_found"
          /\ PODCAST_REQUESTS' = PODCAST_REQUESTS]_vars

C8_Witness ==
  /\ chk.pc = "returned" /\ chk.response.status = "not_found"
  /\ Issued(chk.request_id)

\* the Reaper has completed a cycle
CycleDone == reaper.pc \in {"sleep", "run"} /\ reaper.wake_at > 0
\* the instant at which the last completed cycle ended
CycleEnd == reaper.wake_at - IntervalTicks
\* a record stored at instant s under rid is in the store
Stored(rid, s) == Known(rid) /\ PODCAST_REQUESTS[rid].submitted_at = s
\* the instants a record may be stored at and outlive in this model
Outlived == { s \in Instants : s + ExpiryTicks + 1 \in Instants }

C10_ReaperDeletesExactlyExpired ==
  [][(reaper.pc \in {"run", "waiting"} /\ reaper'.pc = "sleep")
       => /\ DOMAIN PODCAST_REQUESTS' =
               { rid \in DOMAIN PODCAST_REQUESTS :
                   ~(reaper'.current_time - PODCAST_REQUESTS[rid].submitted_at
                       > REQUEST_EXPIRY_SECONDS * TicksPerSecond) }
          /\ \A rid \in DOMAIN PODCAST_REQUESTS' :
               PODCAST_REQUESTS'[rid] = PODCAST_REQUESTS[rid]]_vars

C10_Witness ==
  /\ reaper.pc = "sleep" /\ reaper.current_time > ExpiryTicks
  /\ \E j \in Jobs : proc[j].pc = "synth" /\ ~Known(Rid(j))
  /\ \E rid \in DOMAIN PODCAST_REQUESTS :
       reaper.current_time - PODCAST_REQUESTS[rid].submitted_at < ExpiryTicks

\* C11: a play_podcast call whose arguments fail validation returns an error
\* response and does nothing else: its steps leave the store, the tasks and
\* the files as they are, no run is ever started for it, and its return
\* waits for nothing.
C11_RejectionHasNoEffect ==
  /\ [][\A j \in Jobs :
          (sub'[j] # sub[j] /\ sub'[j].pc \in {"rejecting", "rejected"})
            => /\ PODCAST_REQUESTS' = PODCAST_REQUESTS
               /\ proc' = proc
               /\ files' = files
               /\ REQUEST_LOCK' = REQUEST_LOCK]_vars
  /\ [](\A j \in Jobs :
          sub[j].pc \in {"rejecting", "rejected"}
            => /\ sub[j].response.status = "error"
               /\ proc[j].pc = "none"
               /\ (sub[j].pc = "rejecting" /\ Running) => ENABLED SubmitReject(j))

C11_Witness ==
  \E j, k \in Jobs : /\ sub[j].pc = "rejected" /\ sub[j].response.status = "error"
                     /\ proc[j].pc = "none"
                     /\ proc[k].pc = "synth" /\ Known(Rid(k))

\* a rate or volume string of the form: one sign, one or more decimal digits,
\* "%", the digits' value within 0..100
MatchesFormat(v) ==
  /\ Len(v) >= 3
  /\ v[1] \in {"+", "-"}
  /\ v[Len(v)] = "%"
  /\ \A n \in 2..(Len(v) - 1) : v[n] \in Digit
  /\ DigitsValue(SubSeq(v, 2, Len(v) - 1), 0) \in 0..100

\* C12: the rate/volume validator accepts a string exactly when it is one
\* sign, one or more decimal digits and "%", with the value in 0..100.
C12_PercentFormat ==
  (pure.fn = "validate_percentage" /\ pure.pc = "return")
    => (pure.out.ok <=> MatchesFormat(pure.arg))

\* the entries of a submitted conversation that carry a speaker and a text
\* key (in any letter case), and the values under these keys
HasKeys(entry) ==
  /\ \E k \in DOMAIN entry : KeyLower(k) = "speaker"
  /\ \E k \in DOMAIN entry : KeyLower(k) = "text"
SpeakerOf(entry) == entry[CHOOSE k \in DOMAIN entry : KeyLower(k) = "speaker"]
TextOf(entry) == entry[CHOOSE k \in DOMAIN entry : KeyLower(k) = "text"]
RECURSIVE SummedLength(_)
SummedLength(entries) ==
  IF entries = <<>> THEN 0 ELSE TextLen(TextOf(Head(entries))) + SummedLength(Tail(entries))
EqualIgnoringCase(v, w) ==
  Len(v) = Len(w) /\ \A n \in 1..Len(v) : LowerChar(v[n]) = LowerChar(w[n])
IsRole(v) ==
  EqualIgnoringCase(v, <<"m", "a", "l", "e">>) \/ EqualIgnoringCase(v, <<"f", "e", "m", "a", "l", "e">>)

\* C13: of the entries that carry both keys, a conversation with none, with
\* one whose text is blank, or with a summed text length above 64,000 is
\* rejected; one with at least one entry, no blank text and a summed length
\* of at most 64,000 (so also exactly 64,000) is accepted when its speakers,
\* rate and volume are valid.
C13_ConversationValidator ==
  (pure.fn = "play_podcast" /\ pure.pc = "return")
    => LET segments == SelectSeq(pure.arg.conversation, HasKeys)
           bad == \/ segments = <<>>
                  \/ \E n \in 1..Len(segments) : IsBlank(TextOf(segments[n]))
                  \/ SummedLength(segments) > MaxTotalLength
           rest == /\ \A n \in 1..Len(segments) : IsRole(SpeakerOf(segments[n]))
                   /\ validate_percentage(pure.arg.rate).ok
                   /\ validate_percentage(pure.arg.volume).ok
       IN  /\ bad => ~pure.out.ok
           /\ (~bad /\ rest) => pure.out.ok

C13_Witness ==
  /\ pure.fn = "play_podcast" /\ pure.pc = "return"
  /\ Len(pure.arg.conversation) = 2
  /\ SummedLength(SelectSeq(pure.arg.conversation, HasKeys)) = MaxTotalLength
  /\ pure.out.ok

\* C14: a speaker is accepted exactly when it is "male" or "female" up to
\* letter case; the accepted value is in lower case, so every segment of an
\* accepted request has a voice in PODCAST_VOICES.
C14_SpeakerValidator ==
  /\ (pure.fn = "validate_speaker" /\ pure.pc = "return")
       => /\ pure.out.ok <=> IsRole(pure.arg)
          /\ pure.out.ok => (pure.out.value \in DOMAIN PODCAST_VOICES
                               /\ pure.out.value = Str(Lower(pure.arg)))
  /\ (pure.fn = "play_podcast" /\ pure.pc = "return")
       => /\ pure.out.ok =>
               \A n \in 1..Len(pure.out.value.conversation) :
                  pure.out.value.conversation[n].speaker \in DOMAIN PODCAST_VOICES
          /\ (\E n \in 1..Len(pure.arg.conversation) :
                 HasKeys(pure.arg.conversation[n]) /\ ~IsRole(SpeakerOf(pure.arg.conversation[n])))
               => ~pure.out.ok

C14_Witness ==
  /\ pure.fn = "validate_speaker" /\ pure.pc = "return"
  /\ pure.out.ok /\ pure.out.value = "female" /\ Str(pure.arg) # "female"

\* the words of the chunks, in chunk order
RECURSIVE ChunkWords(_)
ChunkWords(chunks) ==
  IF chunks = <<>> THEN <<>> ELSE SplitWords(Head(chunks), <<>>) \o ChunkWords(Tail(chunks))

\* C15: the words of the chunks, in chunk order, are the words of the text.
C15_RoundTrip ==
  (pure.fn = "chunk_text" /\ pure.pc = "return")
    => ChunkWords(pure.out) = SplitWords(pure.arg.text, <<>>)

\* C16: a chunk is no longer than max_length, unless it is one word that is
\* itself longer than max_length.
C16_ChunkLength ==
  (pure.fn = "chunk_text" /\ pure.pc = "return")
    => \A n \in 1..Len(pure.out) :
         \/ Len(pure.out[n]) <= pure.arg.max_length
         \/ SplitWords(pure.out[n], <<>>) = <<pure.out[n]>>

C16_Witness ==
  /\ pure.fn = "chunk_text" /\ pure.pc = "return"
  /\ \E n, m \in 1..Len(pure.out) :
       /\ Len(pure.out[n]) > pure.arg.max_length
       /\ Len(pure.out[m]) = pure.arg.max_length

\* C17: chunk_text returns at least one chunk, and no chunk is empty.
C17_NoEmptyChunk ==
  (pure.fn = "chunk_text" /\ pure.pc = "return")
    => (pure.out # <<>> /\ \A n \in 1..Len(pure.out) : pure.out[n] # <<>>)

\* C18: every accepted job eventually has status completed or failed.
C18_JobsEnd ==
  \A j \in {1} :
    (sub[j].pc = "returned" /\ proc[j].pc = "start")
      ~> (Known(Rid(j)) /\ PODCAST_REQUESTS[Rid(j)].status \in {"completed", "failed"})

\* the synthesis calls a text_to_speech call has to make, and those it made
\* that returned
SynthesisNeeded(call) ==
  IF call.request.text.length > ChunkThreshold THEN call.request.text.chunks ELSE 1
SynthesisDone(call) ==
  IF call.request.text.length > ChunkThreshold THEN Len(call.temp_files)
  ELSE IF OutputFile(call.request_id) \in DOMAIN files THEN 1 ELSE 0

\* C19: text_to_speech has returned only when no synthesis call of it is
\* pending, and a call that has returned does nothing more; its payload is
\* the success payload only if the request was valid and every chunk was
\* synthesized, and otherwise the error payload {status, error, error_type}.
C19_SynchronousContract ==
  /\ [](\A c \in Calls :
          tts[c].pc = "returned" =>
            LET call == tts[c]
                whole == /\ TTSInput(call.request).ok
                         /\ SynthesisNeeded(call) > 0
                         /\ SynthesisDone(call) = SynthesisNeeded(call)
            IN  /\ call.response.status \in {"success", "error"}
                /\ call.response.status = "success" => whole
                /\ ~whole => call.response.status = "error"
                /\ call.response.status = "error" =>
                     DOMAIN call.response = {"status", "error", "error_type"}
                /\ call.response.status = "success" =>
                     /\ call.response.audio_file = OutputFile(call.request_id)
                     /\ OutputFile(call.request_id) \in DOMAIN files)
  /\ [][\A c \in Calls : tts[c].pc = "returned" => tts'[c] = tts[c]]_vars

\* a call has returned an error after one chunk was synthesized and the next
\* was not, and another has returned success for a text of several chunks
C19_Witness ==
  \E c, d \in Calls :
    /\ tts[c].pc = "returned" /\ tts[c].response.status = "error"
    /\ tts[c].response.error_type = "Exception"
    /\ Len(tts[c].temp_files) = 1 /\ tts[c].request.text.chunks = MaxChunks
    /\ tts[d].pc = "returned" /\ tts[d].response.status = "success"
    /\ tts[d].request.text.chunks = MaxChunks

\* the files the run of job j writes
JobPaths(j) ==
  { SegmentPath(Rid(j), i) : i \in 0..(Len(Conv(j)) - 1) } \cup {OutputPath(Rid(j))}
\* the run of job j has been created and has not ended
InFlight(j) == proc[j].pc \notin {"none", "done", "crashed"}

\* C20: no two jobs in flight at the same time write the same file path.
C20_DistinctPaths ==
  \A j, k \in Jobs :
    (j # k /\ InFlight(j) /\ InFlight(k)) => JobPaths(j) \cap JobPaths(k) = {}

\* the synthesis call of job j for the segment at proc[j].i is made in this step
CallStarts(j) == proc[j].pc # "synth" /\ proc'[j].pc = "synth"
\* the synthesis call of job j returns or raises in this step
CallEnds(j) == proc[j].pc = "synth" /\ proc'[j] # proc[j]
\* the call that ends in this step had written its file
CallSucceeded(j) == Len(proc'[j].temp_files) > Len(proc[j].temp_files)
\* the errors recorded for job j
ErrorsOf(store, j) == IF Rid(j) \in DOMAIN store THEN store[Rid(j)].errors ELSE <<>>

\* C21: within one run the calls are made for the segments 0, 1, 2, ... in
\* that order, the next one only after the one before has ended; a call that
\* succeeded adds no error record, one that failed adds exactly one, for its
\* index, and the run goes on with the next segment; a run ends only when
\* every segment has been passed to the backend.
C21_EachSegmentOnce ==
  [][\A j \in Jobs :
       /\ CallStarts(j) =>
            /\ proc[j].pc = "loop"
            /\ proc'[j].i = proc[j].i
            /\ proc[j].i < Len(Conv(j))
       /\ CallEnds(j) =>
            /\ proc'[j].i = proc[j].i + 1
            /\ proc'[j].pc = AfterSegment(j)
            /\ IF CallSucceeded(j)
               THEN ErrorsOf(PODCAST_REQUESTS', j) = ErrorsOf(PODCAST_REQUESTS, j)
               ELSE /\ Known(Rid(j))'
                    /\ ErrorsOf(PODCAST_REQUESTS', j) =
                         Append(ErrorsOf(PODCAST_REQUESTS, j),
                                [segment |-> proc[j].i, error |-> "SynthesisError"])
       /\ Ends(j) => proc[j].i = Len(Conv(j))]_vars

\* the status changes a job record may make
StatusChanges ==
  { <<"submitted", "processing">>, <<"processing", "completed">>, <<"processing", "failed">> }

\* the record of rid is there before and after this step, and is not
\* created anew by a play_podcast call in it
RecordStays(rid) ==
  /\ rid \in (DOMAIN PODCAST_REQUESTS) \cap (DOMAIN PODCAST_REQUESTS')
  /\ ~ \E j \in Jobs : sub[j].pc = "validated" /\ sub'[j].pc = "returned" /\ Rid(j) = rid
StoredIds == (DOMAIN PODCAST_REQUESTS) \cup { Rid(j) : j \in Jobs }

\* C22: the status of a record that stays in the store changes only along
\* submitted -> processing, processing -> completed and processing -> failed.
C22_StatusLifecycle ==
  [][\A rid \in StoredIds :
       \/ ~RecordStays(rid)
       \/ PODCAST_REQUESTS'[rid].status = PODCAST_REQUESTS[rid].status
       \/ <<PODCAST_REQUESTS[rid].status, PODCAST_REQUESTS'[rid].status>> \in StatusChanges]_vars

\* C23: the progress of a record that stays in the store never decreases.
C23_ProgressNeverDecreases ==
  [][\A rid \in StoredIds :
       RecordStays(rid) => PODCAST_REQUESTS'[rid].progress >= PODCAST_REQUESTS[rid].progress]_vars

\* a check_podcast_status response about the record of job j, made while a
\* synthesis call of j is in flight
ReadInFlight(j) ==
  /\ chk.pc = "returned" /\ chk.request_id = Rid(j)
  /\ chk.response.status # "not_found"
  /\ proc[j].pc = "synth"

\* C24 as stated: while the call for the segment at index i is in flight,
\* check_podcast_status reports progress i + 1.
C24_ReportsStarted ==
  \A j \in Jobs : ReadInFlight(j) => chk.response.progress = proc[j].i + 1

\* C24, amended: the run sets the progress to i just before it starts the
\* call for the segment at index i; check_podcast_status reports the stored
\* progress; while the call is in flight the stored progress of a record that
\* stays changes only by a step of another run with the same request id.
C24_ReportsAttempted ==
  /\ [][\A j \in Jobs :
          /\ CallStarts(j) =>
               Known(Rid(j))' /\ PODCAST_REQUESTS'[Rid(j)].progress = proc[j].i
          /\ (proc[j].pc = "synth" /\ proc'[j].pc = "synth" /\ RecordStays(Rid(j))
                /\ PODCAST_REQUESTS'[Rid(j)].progress # PODCAST_REQUESTS[Rid(j)].progress)
               => \E k \in Jobs \ {j} : Rid(k) = Rid(j) /\ proc'[k] # proc[k]]_vars
  /\ [](\A j \in Jobs :
          ReadInFlight(j) =>
            /\ Known(Rid(j))
            /\ chk.response.progress = PODCAST_REQUESTS[Rid(j)].progress
            /\ (\A k \in Jobs \ {j} : Rid(k) # Rid(j)) => chk.response.progress = proc[j].i)

\* the second segment's call is in flight and check_podcast_status reports 1
C24_Witness ==
  \E j \in Jobs :
    /\ ReadInFlight(j) /\ proc[j].i = 1
    /\ chk.response.progress = 1 /\ chk.response.status = "processing"
    /\ \A k \in Jobs \ {j} : Rid(k) # Rid(j)

\* C25: the store is written only in a step of a task that takes the lock,
\* which it can only when no task holds it; the lock passes from free to one
\* holder and back, never from one holder to another.
C25_WritesUnderLock ==
  [][/\ PODCAST_REQUESTS' # PODCAST_REQUESTS =>
          REQUEST_LOCK = NoHolder /\ REQUEST_LOCK' = NoHolder
     /\ REQUEST_LOCK' # REQUEST_LOCK =>
          REQUEST_LOCK = NoHolder \/ REQUEST_LOCK' = NoHolder]_vars

\* the lock is held across an await while a run and the Reaper wait to
\* write the store
C25_Witness ==
  /\ REQUEST_LOCK # NoHolder
  /\ \E j \in Jobs : proc[j].pc = "finish"
  /\ reaper.pc = "waiting"

\* the keys a result adds to a response
ResultKeys == {"segments_processed", "segments", "total_words", "audio_file", "error", "error_type"}

\* C26: a response about a record whose status is completed carries the
\* result and equal progress and total_segments; one about a failed record
\* carries the result; one about a submitted or processing record carries
\* no key of a result.
C26_NoTornRead ==
  (chk.pc = "returned" /\ Known(chk.request_id)) =>
    LET rec == PODCAST_REQUESTS[chk.request_id]
        shown == chk.response
    IN  /\ rec.status = "completed" =>
             /\ rec.result # NoResult
             /\ "segments_processed" \in DOMAIN shown
             /\ shown.progress = shown.total_segments
        /\ rec.status = "failed" =>
             /\ rec.result # NoResult
             /\ "error" \in DOMAIN shown
        /\ rec.status \in {"submitted", "processing"} =>
             (DOMAIN shown) \cap ResultKeys = {}

\* C27: no task holds the lock while a synthesis call or a sleep of the
\* Reaper is in progress.
C27_LockFreeDuringSynthesis ==
  ((\E j \in Jobs : proc[j].pc = "synth") \/ reaper.pc = "sleep") => REQUEST_LOCK = NoHolder

\* C28: no step of check_podcast_status changes the store.
C28_CheckIsReadOnly ==
  [][chk' # chk => PODCAST_REQUESTS' = PODCAST_REQUESTS]_vars

\* a check has returned the result of a job whose record is in the store
C28_Witness ==
  /\ chk.pc = "returned" /\ Known(chk.request_id)
  /\ "audio_file" \in DOMAIN chk.response
  /\ PODCAST_REQUESTS[chk.request_id].result # NoResult

\* the run of job j ends in this step by writing a terminal status
EndsWithStatus(j) == Ends(j) /\ proc'[j].pc = "done"

\* C29 as stated: a run in which at least one segment was synthesized ends
\* with the record completed.
C29_CompletedIfAnySynthesized ==
  [][\A j \in Jobs :
       (EndsWithStatus(j) /\ proc[j].temp_files # <<>>)
         => PODCAST_REQUESTS'[Rid(j)].status = "completed"]_vars

\* C29, amended: a run that ends by writing a terminal status writes failed
\* exactly when no segment was synthesized or an exception was raised in the
\* run, and then the result is the error of that case; otherwise it writes
\* completed.
C29_FailedIfNoneOrException ==
  [][\A j \in Jobs :
       EndsWithStatus(j) =>
         /\ Known(Rid(j))'
         /\ PODCAST_REQUESTS'[Rid(j)].status \in {"completed", "failed"}
         /\ PODCAST_REQUESTS'[Rid(j)].status = "failed"
              <=> (proc[j].temp_files = <<>> \/ proc[j].exc # "None")
         /\ proc[j].exc # "None" =>
              PODCAST_REQUESTS'[Rid(j)].result = ErrorResult(proc[j].exc, proc[j].exc)
         /\ (proc[j].exc = "None" /\ proc[j].temp_files = <<>>) =>
              PODCAST_REQUESTS'[Rid(j)].result.error_type = "ProcessingError"]_vars

\* a run has ended failed, of an error while writing the final file, with the
\* file of a synthesized segment on disk
C29_Witness ==
  \E j \in Jobs :
    /\ proc[j].pc = "done" /\ Known(Rid(j))
    /\ PODCAST_REQUESTS[Rid(j)].status = "failed"
    /\ PODCAST_REQUESTS[Rid(j)].result = ErrorResult("OSError", "OSError")
    /\ SegmentPath(Rid(j), 0) \in DOMAIN files
    /\ \A k \in Jobs \ {j} : Rid(k) # Rid(j)

\* C30: when a run ends by writing a terminal status, no file of a segment
\* it synthesized is left.
C30_NoSegmentFileLeft ==
  [][\A j \in Jobs :
       EndsWithStatus(j) => Range(proc[j].temp_files) \cap (DOMAIN files') = {}]_vars

\* C31: a step that deletes records is one step of the Reaper, taken with
\* the lock free before and after and with no step of a play_podcast call, a
\* run or a check in it; it deletes exactly the records that are expired in
\* the store as it is in that step, and leaves the others as they are.
C31_DeletionIsOneCriticalSection ==
  [][(DOMAIN PODCAST_REQUESTS) \ (DOMAIN PODCAST_REQUESTS') # {} =>
       /\ reaper.pc \in {"run", "waiting"} /\ reaper'.pc = "sleep"
       /\ REQUEST_LOCK = NoHolder /\ REQUEST_LOCK' = NoHolder
       /\ sub' = sub /\ proc' = proc /\ chk' = chk /\ chk.pc # "locked"
       /\ (DOMAIN PODCAST_REQUESTS) \ (DOMAIN PODCAST_REQUESTS') =
            RequestsToRemove(reaper'.current_time)
       /\ \A rid \in DOMAIN PODCAST_REQUESTS' :
            /\ rid \in DOMAIN PODCAST_REQUESTS
            /\ PODCAST_REQUESTS'[rid] = PODCAST_REQUESTS[rid]]_vars

\* the Reaper has deleted the record of one job while another play_podcast
\* call was between its validation and its store
C31_Witness ==
  /\ reaper.pc = "sleep" /\ reaper.current_time > ExpiryTicks
  /\ \E j \in Jobs : sub[j].pc = "returned" /\ ~Known(Rid(j))
  /\ \E k \in Jobs : sub[k].pc = "validated"

\* C32: an exception raised in a Reaper cycle leaves the lock free and the
\* store as it is, and the task sleeps one interval; the task never ends;
\* after an exception in an early cycle a later cycle is run.
C32_ReaperSurvives ==
  /\ [][reaper'.pc = "backoff" /\ reaper.pc # "backoff" =>
          /\ REQUEST_LOCK' = NoHolder
          /\ PODCAST_REQUESTS' = PODCAST_REQUESTS
          /\ reaper'.wake_at = now + IntervalTicks]_vars
  /\ [](reaper.pc \in {"run", "waiting", "sleep", "backoff"})
  /\ [](reaper.pc = "backoff" => now < reaper.wake_at)
  /\ (reaper.pc = "backoff" /\ now <= MaxSmallTicks)
       ~> (reaper.pc \in {"sleep", "backoff"} /\ reaper.current_time >= ExpiryTicks)

\* the cycle after the retention window raised: the expired record is still
\* in the store and the Reaper sleeps
C32_Witness ==
  /\ reaper.pc = "backoff" /\ reaper.current_time > ExpiryTicks
  /\ REQUEST_LOCK = NoHolder
  /\ \E rid \in DOMAIN PODCAST_REQUESTS : Expired(PODCAST_REQUESTS[rid], reaper.current_time)

\* C33: on shutdown the Reaper task is cancelled, whether it sleeps after a
\* cycle, sleeps after a caught exception, is due to run or waits for the
\* lock: once the lifespan has shut down the Reaper is cancelled and stays
\* so, no record is evicted any more, and the shutdown is possible whatever
\* the position of a job run (it waits for none).
C33_ShutdownCancelsReaper ==
  /\ [](lifespan = "shutdown" => reaper.pc = "cancelled")
  /\ [][lifespan = "shutdown"
         => /\ lifespan' = "shutdown"
            /\ reaper' = reaper
            /\ DOMAIN PODCAST_REQUESTS \subseteq DOMAIN PODCAST_REQUESTS']_vars
  /\ [][(lifespan = "running" /\ lifespan' = "shutdown")
         => /\ proc' = proc
            /\ PODCAST_REQUESTS' = PODCAST_REQUESTS]_vars
  /\ [](lifespan = "running" /\ Running => ENABLED Shutdown)
\* the server has shut down while a run was in flight; its record, expired
\* since, is still in the store and a Reaper sleep would be over
C33_Witness ==
  /\ lifespan = "shutdown"
  /\ reaper.pc = "cancelled"
  /\ now >= reaper.wake_at
  /\ proc[1].pc \in {"progress", "synth"}
  /\ \E rid \in DOMAIN PODCAST_REQUESTS : Expired(PODCAST_REQUESTS[rid], now)


\* the synthesis calls text_to_speech has made for call c: the call is at
\* one, or has been at one
SynthesisCalled(call) ==
  call.pc \in {"chunk", "direct"} \/ call.temp_files # <<>> \/
  (call.pc = "returned" /\ call.response.status = "error"
     /\ call.response.error_type = "Exception") \/
  (call.pc = "returned" /\ call.response.status = "success")
\* C34: text_to_speech rejects every text that is empty after trimming
\* whitespace and every text of more than 64,000 characters: the call returns
\* an error payload without having made any synthesis call.
C34_RejectsBlankAndLong ==
  \A c \in Calls :
    (tts[c].pc # "idle" /\
       (tts[c].request.text.stripped = 0 \/ tts[c].request.text.length > MaxTextLength))
      => /\ tts[c].pc = "returned"
         /\ tts[c].response.status = "error"
         /\ ~SynthesisCalled(tts[c])


\* the entry has a key that reads name, in some letter case
HasKey(entry, name) == \E k \in DOMAIN entry : KeyLower(k) = name
\* the value the entry gives under that key
ValueAt(entry, name) == entry[CHOOSE k \in DOMAIN entry : KeyLower(k) = name]
\* C35: a play_podcast request that is not rejected yields a job whose
\* segment list is the submitted conversation, entry for entry and in order
\* (the speaker in lower case, the text as given): as many segments as
\* entries submitted, and no entry without a speaker or a text key.
C35_SegmentsAreTheEntries ==
  (pure.fn = "play_podcast" /\ pure.pc = "return" /\ pure.out.ok) =>
    LET conversation == pure.arg.conversation
        segments == pure.out.value.conversation
    IN  /\ Len(segments) = Len(conversation)
        /\ \A n \in 1..Len(conversation) :
              /\ HasKey(conversation[n], "speaker") /\ HasKey(conversation[n], "text")
              /\ segments[n].speaker = Str(Lower(ValueAt(conversation[n], "speaker")))
              /\ segments[n].text = ValueAt(conversation[n], "text")


\* the segment indices of the error records, and of the details of a result
ErrorIndices(rec) == { rec.errors[k].segment : k \in 1..Len(rec.errors) }
DoneIndices(result) == { result.segments[k].index : k \in 1..Len(result.segments) }
\* C36: in every record whose status is completed the result is a success
\* result with at least one segment processed, the segments processed and
\* the error records add up to total_segments, the error records have
\* strictly increasing segment indices, and no index is both in an error
\* record and in the segments of the result.
C36_CompletedRecordAddsUp ==
  \A rid \in DOMAIN PODCAST_REQUESTS :
    LET rec == PODCAST_REQUESTS[rid]
    IN  rec.status = "completed" =>
          /\ rec.result.status = "success"
          /\ rec.result.segments_processed >= 1
          /\ rec.result.segments_processed + Len(rec.errors) = rec.total_segments
          /\ \A k \in 1..(Len(rec.errors) - 1) :
                rec.errors[k].segment < rec.errors[k + 1].segment
          /\ ErrorIndices(rec) \cap DoneIndices(rec.result) = {}


\* C37: every record has 0 <= progress <= total_segments, so that the
\* progress percentage reported lies in 0..100 (in tenths: 0..1000), and the
\* total_segments and
\* the submitted_at of a record that stays in the store never change.
C37_ProgressWithinTotal ==
  /\ [](\A rid \in DOMAIN PODCAST_REQUESTS :
          LET rec == PODCAST_REQUESTS[rid]
          IN  /\ 0 <= rec.progress /\ rec.progress <= rec.total_segments
              /\ 0 <= ProgressPercentage(rec.progress, rec.total_segments)
              /\ ProgressPercentage(rec.progress, rec.total_segments) <= 1000)
  /\ [][\A rid \in StoredIds :
         RecordStays(rid) =>
           /\ PODCAST_REQUESTS'[rid].total_segments = PODCAST_REQUESTS[rid].total_segments
           /\ PODCAST_REQUESTS'[rid].submitted_at = PODCAST_REQUESTS[rid].submitted_at]_vars


\* this step is a step of the processor run of job j
RunSteps(j) == proc[j].pc # "none" /\ proc'[j] # proc[j]
\* C38: with several jobs in flight, a step of the run of one job leaves the
\* status, progress, errors and result of every other job's record as
\* they are.
C38_RunsAreIsolated ==
  [][\A j, k \in Jobs :
       (j # k /\ RunSteps(j) /\ proc[k].pc # "none" /\ Known(Rid(k)))
         => /\ Rid(k) \in DOMAIN PODCAST_REQUESTS'
            /\ PODCAST_REQUESTS'[Rid(k)].status = PODCAST_REQUESTS[Rid(k)].status
            /\ PODCAST_REQUESTS'[Rid(k)].progress = PODCAST_REQUESTS[Rid(k)].progress
            /\ PODCAST_REQUESTS'[Rid(k)].errors = PODCAST_REQUESTS[Rid(k)].errors
            /\ PODCAST_REQUESTS'[Rid(k)].result = PODCAST_REQUESTS[Rid(k)].result]_vars


\* C39: once the record of a job has been evicted while its run is in
\* flight, no step of the run writes the store; a record for an id that is
\* not in the store comes into it only by a play_podcast call storing it;
\* and check_podcast_status answers not_found for an id that is not in
\* the store.
C39_EvictedStaysEvicted ==
  /\ [][\A j \in Jobs :
         (RunSteps(j) /\ ~Known(Rid(j))) => PODCAST_REQUESTS' = PODCAST_REQUESTS]_vars
  /\ [][\A rid \in StoredIds :
         (rid \notin DOMAIN PODCAST_REQUESTS /\ rid \in DOMAIN PODCAST_REQUESTS')
           => \E j \in Jobs : sub[j].pc = "validated" /\ sub'[j].pc = "returned" /\ Rid(j) = rid]_vars
  /\ [](chk.pc = "returned" /\ ~Known(chk.request_id)
          => chk.response = NotFoundResponse(chk.request_id))
\* the record of a run in flight was evicted, the run has met the KeyError
\* of its next write, and a status check of its id has answered not_found
C39_Witness ==
  \E j \in Jobs :
    /\ proc[j].pc = "except" /\ proc[j].exc = "KeyError"
    /\ ~Known(Rid(j))
    /\ chk.pc = "returned" /\ chk.request_id = Rid(j)
    /\ chk.response.status = "not_found"

====
